---- MODULE Spec2Model ----
(***************************************************************************)
(* State-machine model of MQTTHandlers.py: the connect / run / disconnect  *)
(* lifecycle of MQTTPublish, MQTTPublish_TLS and MQTTSubscribe around the  *)
(* paho MQTT client (the Transport), the process-wide LOGGER and time.     *)
(*                                                                         *)
(* One behaviour is one process running start_loop() of one role.  Every   *)
(* call into the Transport, and time.sleep, either completes or raises;    *)
(* the outcome is chosen nondeterministically.  Text is a sequence of      *)
(* code points, a payload a sequence of bytes.                             *)
(***************************************************************************)
EXTENDS Integers, Sequences, FiniteSets

(***************************************************************************)
(* Bounds of the model.                                                    *)
(***************************************************************************)
MaxFaults == 2          \* faults the environment raises in one execution
MaxMsgs == 2            \* inbound messages the Transport delivers
MaxPayloadLen == 2      \* bytes in an inbound payload

(***************************************************************************)
(* Program constants.                                                      *)
(***************************************************************************)
TLS_PORT == 8883        \* port=8883 in MQTTPublish_TLS.connect
SLEEP_SECONDS == 5      \* time.sleep(5)
TIME_BUDGET == 200      \* time.time() - self.start_time >= 200
EXIT_ARG == -1          \* sys.exit(-1)
COLON == 58             \* ":" in onMessage

Roles == {"PUB", "TLS", "SUB"}
Publishers == {"PUB", "TLS"}

\* "test/topic", "t"
Topics == { <<116, 101, 115, 116, 47, 116, 111, 112, 105, 99>>, <<116>> }

\* Configuration snapshots handed out by JSON_Parser: host, port, keepalive
\* timeout, topic, payload, qos and the three TLS paths.
Settings ==
    { [host |-> "localhost", port |-> 1883, timeout |-> 60,
       topic |-> <<116, 101, 115, 116, 47, 116, 111, 112, 105, 99>>,
       message |-> <<104, 101, 108, 108, 111>>, qos |-> 0,
       ca_certs |-> "ca.crt", cafile |-> "server.crt", keyfile |-> "server.key"],
      [host |-> "broker", port |-> 8883, timeout |-> 30,
       topic |-> <<116>>, message |-> <<104, 105>>, qos |-> 1,
       ca_certs |-> "ca.crt", cafile |-> "client.crt", keyfile |-> "client.key"],
      [host |-> "broker", port |-> 1884, timeout |-> 60,
       topic |-> <<116>>, message |-> <<>>, qos |-> 2,
       ca_certs |-> "root.pem", cafile |-> "client.crt", keyfile |-> "client.key"] }

\* time.time() at construction, and the time that passes between construction
\* and start_loop().
StartTimes == {0, 1000}
Delays == {0, 3, 200}

\* Result codes the Transport's connect may return (MQTT_ERR_AGAIN = -1,
\* MQTT_ERR_SUCCESS = 0, MQTT_ERR_NOMEM = 1, MQTT_ERR_CONN_REFUSED = 5).
ResultCodes == {-1, 0, 1, 5}

\* Bytes of inbound payloads: "A", and the two bytes of the UTF-8 form of U+00E9.
Bytes == {65, 195, 169}

\* "Press CTRL+C to exit...."
PROMPT ==
    <<80, 114, 101, 115, 115, 32, 67, 84, 82, 76, 43, 67, 32, 116, 111, 32,
      101, 120, 105, 116, 46, 46, 46, 46>>

\* LOG_DIR, "logs"
LOG_DIR == <<108, 111, 103, 115>>

LogMsgs ==
    { "error_connect", "info_connected", "debug_running", "debug_published",
      "warning_disconnecting", "info_disconnected", "info_waiting" }

TransportCalls ==
    { "tls_set", "tls_insecure_set", "connect", "publish", "subscribe",
      "loop_forever", "disconnect" }

VARIABLES
    role,           \* which class's start_loop() the process runs
    host,           \* self.host
    port,           \* self.port
    timeout,        \* self.timeout
    topic,          \* self.topic
    message,        \* self.message
    qos,            \* self.qos
    ca_certs,       \* self.ca_certs
    cafile,         \* self.cafile
    keyfile,        \* self.keyfile
    start_time,     \* self.start_time
    delay,          \* time from construction to the call of start_loop()
    now,            \* time.time()
    pc,             \* position of the process
    faults,         \* faults raised by the environment so far
    client_result,  \* self.client_result: <<>> before connect returns, else <<rc>>
    connect_port,   \* port argument of client.connect: <<>> or <<p>>
    connect_args,   \* host and keepalive arguments of client.connect
    connected,      \* the Transport has an open connection
    tls,            \* Transport TLS context: [material, insecure]
    calls,          \* number of calls of each Transport primitive
    logs,           \* number of LOGGER events of each kind
    last,           \* the last LOGGER event or Transport call
    sent,           \* arguments of the publish calls made
    delivered,      \* inbound messages the Transport delivered, in order
    callbacks,      \* invocations of client.on_message
    stdout,         \* lines printed
    loop_faults,    \* faults raised inside the try block of run()
    disc_faults,    \* faults raised by client.disconnect()
    raised_from,    \* where a fault left start_loop(): "none" if none did
    exit_status,    \* <<>> while running, <<s>> once sys.exit ended the process
    twin            \* a MQTTPublish_TLS object run beside the publisher (PairSpec)

vars ==
    << role, host, port, timeout, topic, message, qos, ca_certs, cafile,
       keyfile, start_time, delay, now, pc, faults, client_result,
       connect_port, connect_args, connected, tls, calls, logs, last, sent,
       delivered, callbacks, stdout, loop_faults, disc_faults, raised_from,
       exit_status, twin >>

\* What is fixed once the object is constructed and start_loop() is called.
settings ==
    << role, host, port, timeout, topic, message, qos, ca_certs, cafile,
       keyfile, start_time, delay >>

Bump(f, k) == [f EXCEPT ![k] = @ + 1]


(***************************************************************************)
(* Pure helpers.                                                           *)
(***************************************************************************)
BoundedSeq(S, n) == UNION { [1..k -> S] : k \in 0..n }

Payloads == BoundedSeq(Bytes, MaxPayloadLen)

\* bytes.decode(): strict UTF-8.  One-byte and two-byte forms are modelled;
\* the byte alphabet of the model contains no lead byte of a longer form.
IsAscii(b) == b >= 0 /\ b <= 127
IsLead2(b) == b >= 194 /\ b <= 223
IsCont(b) == b >= 128 /\ b <= 191

RECURSIVE Decodable(_)
Decodable(bs) ==
    IF bs = <<>> THEN TRUE
    ELSE IF IsAscii(Head(bs)) THEN Decodable(Tail(bs))
    ELSE IF IsLead2(Head(bs)) /\ Len(bs) >= 2 /\ IsCont(bs[2])
         THEN Decodable(Tail(Tail(bs)))
    ELSE FALSE

RECURSIVE decode(_)
decode(bs) ==
    IF bs = <<>> THEN <<>>
    ELSE IF IsAscii(Head(bs)) THEN <<Head(bs)>> \o decode(Tail(bs))
    ELSE <<(Head(bs) - 192) * 64 + (bs[2] - 128)>> \o decode(Tail(Tail(bs)))

\* The line onMessage prints for a message whose payload decodes.
onMessageNoColon(msg) == msg.topic \o decode(msg.payload)
onMessage(msg) == msg.topic \o <<COLON>> \o decode(msg.payload)

\* self.client.on_message = onMessage is set by MQTTSubscribe.__init__ only.
CallbackRegistered(r) == r = "SUB"

\* The two branches of connect(): if rc != 0 ... elif rc == 0 ...
ConnectFailedPositive(rc) == rc > 0
ConnectFailedInverted(rc) == rc = 0
ConnectFailed(rc) == rc # 0

ConnectSucceeded(rc) == rc = 0

\* The port passed to client.connect.
ConnectPortConfigured(r, p) == p
ConnectPort(r, p) == IF r = "TLS" THEN TLS_PORT ELSE p

\* sys.exit(arg) as the exit status the parent sees.
ExitStatus(arg) == arg % 256

\* The first step of start_loop(): tls_config() in MQTTPublish_TLS, connect()
\* in the other two classes.
FirstStepConnect(r) == "connect"
FirstStep(r) == IF r = "TLS" THEN "tls_config" ELSE "connect"

\* The arguments of client.publish.
PublishArgsNoQos(t, m, q) == <<t, m, 0>>
PublishArgs(t, m, q) == <<t, m, q>>

\* The step start_loop() takes after connect() returns.
AfterConnectNoSubscribe(r) == IF r = "SUB" THEN "sub_run" ELSE "publish"
AfterConnectCheckFirst(r) == IF r = "SUB" THEN "subscribe" ELSE "check"
AfterConnect(r) == IF r = "SUB" THEN "subscribe" ELSE "publish"

\* time.time() - self.start_time >= 200
BudgetExpiredStrict(t, st) == t - st > TIME_BUDGET
BudgetExpiredAbsolute(t, st) == t >= TIME_BUDGET
BudgetExpired(t, st) == t - st >= TIME_BUDGET

\* Where control goes when the except handler of run() has completed: the
\* publishers' handler sits inside `while True` and has no break; the
\* subscriber's run() has no loop of its own.
AfterHandlerReenter(r) == IF r = "SUB" THEN "sub_run" ELSE "publish"
AfterHandler(r) == IF r = "SUB" THEN "returned" ELSE "publish"

\* A MQTTPublish_TLS object whose tls_config() has completed, about to call
\* connect(): nothing called or logged yet from there on.
TwinStart ==
    [ pc |-> "connect", client_result |-> <<>>, connect_port |-> <<>>,
      connect_args |-> <<>>, connected |-> FALSE,
      calls |-> [c \in TransportCalls |-> 0], logs |-> [l \in LogMsgs |-> 0],
      last |-> "none", sent |-> {}, stdout |-> <<>>, raised_from |-> "none",
      exit_status |-> <<>> ]

(***************************************************************************)
(* __init__ of the three classes, and the time until start_loop() runs.    *)
(***************************************************************************)
Init ==
    /\ role \in Roles
    /\ \E s \in Settings :
          /\ host = s.host
          /\ port = s.port
          /\ timeout = s.timeout
          /\ topic = s.topic
          /\ message = s.message
          /\ qos = s.qos
          /\ ca_certs = s.ca_certs
          /\ cafile = s.cafile
          /\ keyfile = s.keyfile
    /\ start_time \in (IF role \in Publishers THEN StartTimes ELSE {0})
    /\ delay \in (IF role \in Publishers THEN Delays ELSE {0})
    /\ now = start_time + delay
    /\ pc = FirstStep(role)
    /\ faults = 0
    /\ client_result = <<>>
    /\ connect_port = <<>>
    /\ connect_args = <<>>
    /\ connected = FALSE
    /\ tls = [material |-> <<>>, insecure |-> FALSE]
    /\ calls = [c \in TransportCalls |-> 0]
    /\ logs = [l \in LogMsgs |-> 0]
    /\ last = "none"
    /\ sent = {}
    /\ delivered = <<>>
    /\ callbacks = 0
    /\ stdout = <<>>
    /\ loop_faults = 0
    /\ disc_faults = 0
    /\ raised_from = "none"
    /\ exit_status = <<>>
    /\ twin = TwinStart

(***************************************************************************)
(* MQTTPublish_TLS.tls_config: tls_set may raise (unreadable certificate   *)
(* files); nothing in start_loop() catches it.                             *)
(***************************************************************************)
TlsConfig ==
    /\ pc = "tls_config"
    /\ \/ /\ tls' = [material |-> <<ca_certs, cafile, keyfile>>,
                     insecure |-> TRUE]
          /\ calls' = Bump(Bump(calls, "tls_set"), "tls_insecure_set")
          /\ last' = "tls_insecure_set"
          /\ pc' = "connect"
          /\ UNCHANGED << faults, raised_from >>
       \/ /\ faults < MaxFaults
          /\ faults' = faults + 1
          /\ calls' = Bump(calls, "tls_set")
          /\ last' = "tls_set"
          /\ raised_from' = "tls_config"
          /\ pc' = "raised"
          /\ UNCHANGED tls
    /\ UNCHANGED << settings, now, client_result, connect_port, connect_args, connected, logs,
                    sent, delivered, callbacks, stdout, loop_faults,
                    disc_faults, exit_status >>

(***************************************************************************)
(* connect() of the three classes.  client.connect returns a result code   *)
(* or raises; the call is outside every try block.                         *)
(***************************************************************************)
ConnectReturns(rc) ==
    /\ client_result' = <<rc>>
    /\ connected' = (rc = 0)
    /\ IF ConnectFailed(rc)
         THEN /\ logs' = Bump(logs, "error_connect")
              /\ last' = "error_connect"
              /\ exit_status' = <<ExitStatus(EXIT_ARG)>>
              /\ pc' = "exited"
         ELSE /\ IF ConnectSucceeded(rc)
                   THEN /\ logs' = Bump(logs, "info_connected")
                        /\ last' = "info_connected"
                   ELSE /\ UNCHANGED logs
                        /\ last' = "connect"
              /\ pc' = AfterConnect(role)
              /\ UNCHANGED exit_status
    /\ UNCHANGED << faults, raised_from >>

ConnectRaises ==
    /\ faults < MaxFaults
    /\ faults' = faults + 1
    /\ last' = "connect"
    /\ raised_from' = "connect"
    /\ pc' = "raised"
    /\ UNCHANGED << client_result, connected, logs, exit_status >>

Connect ==
    /\ pc = "connect"
    /\ connect_port' = <<ConnectPort(role, port)>>
    /\ connect_args' = <<host, timeout>>
    /\ calls' = Bump(calls, "connect")
    /\ \/ \E rc \in ResultCodes : ConnectReturns(rc)
       \/ ConnectRaises
    /\ UNCHANGED << settings, now, tls, sent, delivered, callbacks, stdout,
                    loop_faults, disc_faults >>

(***************************************************************************)
(* Publisher run(): one iteration is Publish, Sleep, BudgetCheck and, when *)
(* the budget is spent, TimedDisconnect.                                   *)
(***************************************************************************)
Publish ==
    /\ pc = "publish"
    /\ stdout' = Append(stdout, PROMPT)
    /\ calls' = Bump(calls, "publish")
    /\ sent' = sent \cup { PublishArgs(topic, message, qos) }
    /\ \/ /\ logs' = Bump(Bump(logs, "debug_running"), "debug_published")
          /\ last' = "debug_published"
          /\ pc' = "sleep"
          /\ UNCHANGED << faults, loop_faults >>
       \/ /\ faults < MaxFaults
          /\ faults' = faults + 1
          /\ loop_faults' = loop_faults + 1
          /\ logs' = Bump(logs, "debug_running")
          /\ last' = "publish"
          /\ pc' = "except"
    /\ UNCHANGED << settings, now, client_result, connect_port, connect_args, connected, tls,
                    delivered, callbacks, disc_faults, raised_from,
                    exit_status >>

Sleep ==
    /\ pc = "sleep"
    /\ \/ /\ now' = now + SLEEP_SECONDS
          /\ pc' = "check"
          /\ UNCHANGED << faults, loop_faults >>
       \/ /\ faults < MaxFaults
          /\ faults' = faults + 1
          /\ loop_faults' = loop_faults + 1
          /\ pc' = "except"
          /\ UNCHANGED now
    /\ UNCHANGED << settings, client_result, connect_port, connect_args, connected, tls, calls,
                    logs, last, sent, delivered, callbacks, stdout, disc_faults,
                    raised_from, exit_status >>

BudgetCheck ==
    /\ pc = "check"
    /\ IF BudgetExpired(now, start_time)
         THEN /\ logs' = Bump(logs, "warning_disconnecting")
              /\ last' = "warning_disconnecting"
              /\ pc' = "timed_disconnect"
         ELSE /\ pc' = "publish"
              /\ UNCHANGED << logs, last >>
    /\ UNCHANGED << settings, now, faults, client_result, connect_port, connect_args,
                    connected, tls, calls, sent, delivered, callbacks, stdout,
                    loop_faults, disc_faults, raised_from, exit_status >>

\* self.disconnect() at line 102, inside the try block; then break.
TimedDisconnect ==
    /\ pc = "timed_disconnect"
    /\ calls' = Bump(calls, "disconnect")
    /\ \/ /\ connected' = FALSE
          /\ logs' = Bump(logs, "info_disconnected")
          /\ last' = "info_disconnected"
          /\ pc' = "returned"
          /\ UNCHANGED << faults, loop_faults, disc_faults >>
       \/ /\ faults < MaxFaults
          /\ faults' = faults + 1
          /\ loop_faults' = loop_faults + 1
          /\ disc_faults' = disc_faults + 1
          /\ last' = "disconnect"
          /\ pc' = "except"
          /\ UNCHANGED << connected, logs >>
    /\ UNCHANGED << settings, now, client_result, connect_port, connect_args, tls, sent,
                    delivered, callbacks, stdout, raised_from, exit_status >>

(***************************************************************************)
(* The bare except handlers of run(): a warning, then self.disconnect().   *)
(* A fault of that disconnect is raised inside the handler and leaves      *)
(* run() and start_loop().                                                 *)
(***************************************************************************)
Except ==
    /\ pc = "except"
    /\ logs' = Bump(logs, "warning_disconnecting")
    /\ last' = "warning_disconnecting"
    /\ pc' = "except_disconnect"
    /\ UNCHANGED << settings, now, faults, client_result, connect_port, connect_args,
                    connected, tls, calls, sent, delivered, callbacks, stdout,
                    loop_faults, disc_faults, raised_from, exit_status >>

ExceptDisconnect ==
    /\ pc = "except_disconnect"
    /\ calls' = Bump(calls, "disconnect")
    /\ \/ /\ connected' = FALSE
          /\ logs' = Bump(logs, "info_disconnected")
          /\ last' = "info_disconnected"
          /\ pc' = AfterHandler(role)
          /\ UNCHANGED << faults, disc_faults, raised_from >>
       \/ /\ faults < MaxFaults
          /\ faults' = faults + 1
          /\ disc_faults' = disc_faults + 1
          /\ last' = "disconnect"
          /\ raised_from' = "run"
          /\ pc' = "raised"
          /\ UNCHANGED << connected, logs >>
    /\ UNCHANGED << settings, now, client_result, connect_port, connect_args, tls, sent,
                    delivered, callbacks, stdout, loop_faults, exit_status >>

(***************************************************************************)
(* MQTTSubscribe: subscribe(), then run() enters client.loop_forever(),    *)
(* which hands every inbound message to client.on_message and returns only *)
(* by raising.  An exception of the callback is re-raised by the Transport *)
(* (its suppress_exceptions is left at False) and so leaves loop_forever.  *)
(***************************************************************************)
Subscribe ==
    /\ pc = "subscribe"
    /\ calls' = Bump(calls, "subscribe")
    /\ last' = "subscribe"
    /\ \/ /\ pc' = "sub_run"
          /\ UNCHANGED << faults, raised_from >>
       \/ /\ faults < MaxFaults
          /\ faults' = faults + 1
          /\ raised_from' = "subscribe"
          /\ pc' = "raised"
    /\ UNCHANGED << settings, now, client_result, connect_port, connect_args, connected, tls,
                    logs, sent, delivered, callbacks, stdout, loop_faults,
                    disc_faults, exit_status >>

SubRun ==
    /\ pc = "sub_run"
    /\ stdout' = stdout \o << PROMPT, LOG_DIR >>
    /\ logs' = Bump(logs, "info_waiting")
    /\ calls' = Bump(calls, "loop_forever")
    /\ last' = "loop_forever"
    /\ pc' = "loop"
    /\ UNCHANGED << settings, now, faults, client_result, connect_port, connect_args,
                    connected, tls, sent, delivered, callbacks, loop_faults,
                    disc_faults, raised_from, exit_status >>

\* The Transport delivers one inbound message: client.on_message(msg).
LoopDeliver ==
    /\ pc = "loop"
    /\ Len(delivered) < MaxMsgs
    /\ \E t \in Topics, pl \in Payloads :
          LET msg == [topic |-> t, payload |-> pl] IN
          /\ delivered' = Append(delivered, msg)
          /\ IF CallbackRegistered(role)
               THEN /\ callbacks' = callbacks + 1
                    /\ IF Decodable(pl)
                         THEN /\ stdout' = Append(stdout, onMessage(msg))
                              /\ pc' = "loop"
                              /\ UNCHANGED loop_faults
                         ELSE /\ loop_faults' = loop_faults + 1
                              /\ pc' = "except"
                              /\ UNCHANGED stdout
               ELSE UNCHANGED << callbacks, stdout, pc, loop_faults >>
    /\ UNCHANGED << settings, now, faults, client_result, connect_port, connect_args,
                    connected, tls, calls, logs, last, sent, disc_faults,
                    raised_from, exit_status >>

\* loop_forever raises: a network fault, or KeyboardInterrupt.
LoopFault ==
    /\ pc = "loop"
    /\ faults < MaxFaults
    /\ faults' = faults + 1
    /\ loop_faults' = loop_faults + 1
    /\ pc' = "except"
    /\ UNCHANGED << settings, now, client_result, connect_port, connect_args, connected, tls,
                    calls, logs, last, sent, delivered, callbacks, stdout,
                    disc_faults, raised_from, exit_status >>

\* One object runs alone: the twin of PairSpec does not move.
Solo == UNCHANGED twin

Next ==
    \/ TlsConfig /\ Solo
    \/ Connect /\ Solo
    \/ Publish /\ Solo
    \/ Sleep /\ Solo
    \/ BudgetCheck /\ Solo
    \/ TimedDisconnect /\ Solo
    \/ Except /\ Solo
    \/ ExceptDisconnect /\ Solo
    \/ Subscribe /\ Solo
    \/ SubRun /\ Solo
    \/ LoopDeliver /\ Solo
    \/ LoopFault /\ Solo

Spec == Init /\ [][Next]_vars

TypeOK ==
    /\ role \in Roles
    /\ pc \in { "tls_config", "connect", "publish", "sleep", "check",
                "timed_disconnect", "except", "except_disconnect", "subscribe",
                "sub_run", "loop", "returned", "raised", "exited" }
    /\ faults \in 0..MaxFaults
    /\ Len(delivered) <= MaxMsgs

(***************************************************************************)
(* Derived quantities used by the properties.                              *)
(***************************************************************************)
ErrorLogs == logs["error_connect"]
WarningLogs == logs["warning_disconnecting"]
Elapsed == now - start_time
RunOver == pc \in {"returned", "raised"}

\* Lines printed by the subscriber after the two lines run() prints itself.
MessageLines == SubSeq(stdout, 3, Len(stdout))

(***************************************************************************)
(* Properties.                                                             *)
(***************************************************************************)

\* C1: in every role, when the Transport's connect returns a non-zero result
\* code, connect() logs exactly one error event and the process ends with a
\* non-zero exit status, and no publish, subscribe, loop_forever or
\* disconnect call is ever made on the Transport.
C1_ConnectFailureIsFatal ==
    (client_result # <<>> /\ client_result[1] # 0) =>
        /\ ErrorLogs = 1
        /\ pc = "exited"
        /\ exit_status # <<>>
        /\ exit_status[1] # 0
        /\ calls["publish"] = 0
        /\ calls["subscribe"] = 0
        /\ calls["loop_forever"] = 0
        /\ calls["disconnect"] = 0

C1_Witness ==
    /\ role = "TLS"
    /\ client_result = <<-1>>
    /\ pc = "exited"
    /\ exit_status = <<255>>

\* C2: in the publishers' run(), once a fault has been raised in an
\* iteration, no further publish call is made.
C2_NoPublishAfterFault ==
    [][ (role \in Publishers /\ loop_faults >= 1)
            => calls'["publish"] = calls["publish"] ]_vars

C4_CleanupFaultNotRetriggered ==
    [][ (role \in Publishers /\ disc_faults >= 1)
            => /\ WarningLogs' = WarningLogs
               /\ calls'["disconnect"] = calls["disconnect"] ]_vars

\* C5: in every role, no fault raised inside run() (a fault of the handler's
\* own disconnect included) leaves run() and start_loop().
C5_NothingPropagatesFromRun == raised_from # "run"

C7_UnreachableLogsError ==
    (role = "PUB" /\ calls["connect"] = 1 /\ client_result # <<0>>) =>
        /\ ErrorLogs >= 1
        /\ pc \in {"exited", "raised"}
        /\ calls["publish"] = 0

C9_OneLinePerMessage ==
    (role = "SUB") =>
        /\ callbacks = Len(delivered)
        /\ Len(MessageLines) = Len(delivered)
        /\ \A i \in 1..Len(delivered) :
              MessageLines[i] =
                  delivered[i].topic \o <<58>> \o decode(delivered[i].payload)

HasText(msg) == Decodable(msg.payload)

\* C9 amended: every delivered message invokes the callback once; the lines
\* printed are, in delivery order, topic, colon and decoded payload of the
\* messages whose payload is valid UTF-8; a message whose payload is not
\* prints no line and is the last one delivered.
C9_OneLinePerTextMessage ==
    (role = "SUB") =>
        LET text == SelectSeq(delivered, HasText) IN
        /\ callbacks = Len(delivered)
        /\ Len(MessageLines) = Len(text)
        /\ \A i \in 1..Len(text) :
              MessageLines[i] =
                  text[i].topic \o <<58>> \o decode(text[i].payload)
        /\ \A i \in 1..(Len(delivered) - 1) : HasText(delivered[i])
        /\ (Len(text) < Len(delivered) => loop_faults = 1 /\ pc # "loop")

C9_Witness ==
    /\ role = "SUB"
    /\ Len(delivered) = 2
    /\ delivered[1].payload = <<195, 169>>
    /\ delivered[2].payload = <<65>>
    /\ delivered[1].topic # delivered[2].topic
    /\ MessageLines = << delivered[1].topic \o <<58, 233>>,
                         delivered[2].topic \o <<58, 65>> >>

\* C10: in every role, when the Transport's connect returns 0, connect()
\* logs exactly one success event and no error event, does not end the
\* process, and start_loop() goes on to its next step.
C10_ConnectSuccessProceeds ==
    (client_result = <<0>>) =>
        /\ logs["info_connected"] = 1
        /\ ErrorLogs = 0
        /\ exit_status = <<>>
        /\ pc \notin {"tls_config", "connect", "exited"}
        /\ (role = "SUB" => calls["subscribe"] = 1 \/ pc = "subscribe")
        /\ (role \in Publishers => calls["publish"] >= 1 \/ pc = "publish")

C10_Witness ==
    /\ role = "SUB"
    /\ client_result = <<0>>
    /\ pc = "subscribe"
    /\ logs["info_connected"] = 1
    /\ last = "info_connected"

\* C11: MQTTSubscribe.start_loop runs connect, subscribe, run in that order:
\* the subscription request is issued at most once and only after connect
\* returned 0, and loop_forever is entered only after the request was issued.
C11_SubscribeBetweenConnectAndRun ==
    (role = "SUB") =>
        /\ calls["subscribe"] <= 1
        /\ (calls["subscribe"] = 1 =>
              calls["connect"] = 1 /\ client_result = <<0>>)
        /\ (pc = "subscribe" => client_result = <<0>>)
        /\ (pc \in {"sub_run", "loop"} \/ calls["loop_forever"] >= 1
              => calls["subscribe"] = 1)

C11_Witness ==
    /\ role = "SUB"
    /\ pc = "loop"
    /\ calls["connect"] = 1
    /\ calls["subscribe"] = 1
    /\ calls["loop_forever"] = 1

\* C12: in MQTTPublish_TLS.start_loop, tls_set with the three configured
\* paths and tls_insecure_set(True) are each called exactly once before the
\* Transport's connect is called, for every configuration.
C12_TlsConfigBeforeConnect ==
    (role = "TLS") =>
        /\ calls["tls_set"] <= 1
        /\ calls["tls_insecure_set"] <= 1
        /\ (pc = "connect" \/ calls["connect"] >= 1 =>
              /\ calls["tls_set"] = 1
              /\ calls["tls_insecure_set"] = 1
              /\ tls.material = <<ca_certs, cafile, keyfile>>
              /\ tls.insecure = TRUE)

C12_Witness ==
    /\ role = "TLS"
    /\ calls["connect"] = 1
    /\ calls["tls_set"] = 1
    /\ calls["tls_insecure_set"] = 1
    /\ tls = [material |-> <<"root.pem", "client.crt", "client.key">>,
              insecure |-> TRUE]

\* C13: in MQTTPublish.start_loop, once disconnect has been called on the
\* Transport, no publish call and no further disconnect call is made.
C13_DisconnectIsTerminal ==
    [][ (role = "PUB" /\ calls["disconnect"] >= 1)
            => /\ calls'["publish"] = calls["publish"]
               /\ calls'["disconnect"] = calls["disconnect"] ]_vars

\* The disconnect calls of a run without fault.
TimedDisconnectStep ==
    (faults' = 0 /\ calls'["disconnect"] > calls["disconnect"]) =>
        /\ last = "warning_disconnecting"
        /\ WarningLogs = 1
        /\ Elapsed >= 200
        /\ calls["disconnect"] = 0
        /\ pc' = "returned"

\* C15: in a publisher run without fault, disconnect is called at most
\* once, the step before it is the one warning log of the run, it is called
\* only when the elapsed time is 200 seconds or more, and run() returns
\* right after it.
C15_TimedTermination ==
    /\ [](role \in Publishers /\ faults = 0 =>
            /\ calls["disconnect"] <= 1
            /\ WarningLogs <= 1
            /\ (WarningLogs = 1 => Elapsed >= 200)
            /\ (pc = "timed_disconnect" =>
                  last = "warning_disconnecting" /\ calls["disconnect"] = 0)
            /\ (calls["disconnect"] = 1 <=> pc = "returned"))
    /\ [][ (role \in Publishers) => TimedDisconnectStep ]_vars

C15_Witness ==
    /\ role = "PUB"
    /\ faults = 0
    /\ delay = 3
    /\ pc = "returned"
    /\ Elapsed = 203
    /\ WarningLogs = 1
    /\ calls["disconnect"] = 1

\* C17: no step of any role changes host, port, keepalive timeout, topic,
\* payload, qos, the TLS paths or start_time, and every publish call carries
\* the configured topic, payload and qos.
C17_SettingsImmutable ==
    /\ [][ UNCHANGED << host, port, timeout, topic, message, qos, ca_certs,
                        cafile, keyfile, start_time >> ]_vars
    /\ [](sent \subseteq { <<topic, message, qos>> })
    /\ [](calls["publish"] >= 1 => sent = { <<topic, message, qos>> })
    /\ [](connect_args # <<>> => connect_args = <<host, timeout>>)

C17_Witness ==
    /\ role = "TLS"
    /\ qos = 2
    /\ calls["publish"] = 3
    /\ loop_faults = 1
    /\ sent = { <<topic, message, 2>> }

history ==
    << faults, connect_port, connect_args, tls, calls, logs, last, sent,
       delivered, callbacks, stdout, loop_faults >>

CtlConnect ==
    /\ pc = "connect"
    /\ \/ \E rc \in ResultCodes :
            /\ client_result' = <<rc>>
            /\ connected' = (rc = 0)
            /\ IF ConnectFailed(rc)
                 THEN /\ exit_status' = <<ExitStatus(EXIT_ARG)>>
                      /\ pc' = "exited"
                 ELSE /\ pc' = AfterConnect(role)
                      /\ UNCHANGED exit_status
            /\ UNCHANGED raised_from
       \/ /\ raised_from' = "connect"
          /\ pc' = "raised"
          /\ UNCHANGED << client_result, connected, exit_status >>
    /\ UNCHANGED << now, disc_faults >>

CtlPublish ==
    /\ pc = "publish"
    /\ pc' \in {"sleep", "except"}
    /\ UNCHANGED << now, client_result, connected, disc_faults, raised_from,
                    exit_status >>

CtlSleep ==
    /\ pc = "sleep"
    /\ \/ now' = now + SLEEP_SECONDS /\ pc' = "check"
       \/ now' = now /\ pc' = "except"
    /\ UNCHANGED << client_result, connected, disc_faults, raised_from,
                    exit_status >>

CtlBudgetCheck ==
    /\ pc = "check"
    /\ pc' = IF BudgetExpired(now, start_time)
               THEN "timed_disconnect" ELSE "publish"
    /\ UNCHANGED << now, client_result, connected, disc_faults, raised_from,
                    exit_status >>

CtlTimedDisconnect ==
    /\ pc = "timed_disconnect"
    /\ \/ /\ connected' = FALSE
          /\ pc' = "returned"
          /\ UNCHANGED disc_faults
       \/ /\ disc_faults < MaxFaults
          /\ disc_faults' = disc_faults + 1
          /\ pc' = "except"
          /\ UNCHANGED connected
    /\ UNCHANGED << now, client_result, raised_from, exit_status >>

CtlExcept ==
    /\ pc = "except"
    /\ pc' = "except_disconnect"
    /\ UNCHANGED << now, client_result, connected, disc_faults, raised_from,
                    exit_status >>

CtlExceptDisconnect ==
    /\ pc = "except_disconnect"
    /\ \/ /\ connected' = FALSE
          /\ pc' = AfterHandler(role)
          /\ UNCHANGED << disc_faults, raised_from >>
       \/ /\ disc_faults' = disc_faults + 1
          /\ raised_from' = "run"
          /\ pc' = "raised"
          /\ UNCHANGED connected
    /\ UNCHANGED << now, client_result, exit_status >>

CtlNext ==
    \/ CtlConnect
    \/ CtlPublish
    \/ CtlSleep
    \/ CtlBudgetCheck
    \/ CtlTimedDisconnect
    \/ CtlExcept
    \/ CtlExceptDisconnect

\* Every step the publisher takes under Spec is one of these steps.
CtlCoversSpec == [][ (role = "PUB") => CtlNext ]_vars

TermInit == Init /\ role = "PUB"

Frozen == UNCHANGED << settings, history, twin >>

TermNext ==
    \/ CtlConnect /\ Frozen
    \/ CtlPublish /\ Frozen
    \/ CtlSleep /\ Frozen
    \/ CtlBudgetCheck /\ Frozen
    \/ CtlTimedDisconnect /\ Frozen
    \/ CtlExcept /\ Frozen
    \/ CtlExceptDisconnect /\ Frozen

TermSpec == TermInit /\ [][TermNext]_vars /\ WF_vars(TermNext)

Terminated == pc \in {"returned", "raised", "exited"}

\* C14: every execution of MQTTPublish.start_loop eventually terminates (run
\* returns, a fault leaves it, or the process exits), whatever faults the
\* Transport raises, with the clock advanced only by the loop's sleep.
C14_StartLoopTerminates == <>Terminated

(***************************************************************************)
(* MQTTPublish_TLS from connect() onward, as steps of the record `twin`,   *)
(* written from the class's own code.  In PairSpec a MQTTPublish object    *)
(* (the variables of Spec) and a MQTTPublish_TLS object (twin) read the    *)
(* same configuration and the same clock and get the same outcome from     *)
(* every Transport call and sleep: out.raised says that the call raised,   *)
(* out.rc is the result code of connect.                                   *)
(***************************************************************************)
TlsBudgetExpiredStrict(t, st) == t - st > 200
TlsBudgetExpired(t, st) == t - st >= 200

TlsConnect(tw, out) ==
    LET called == [tw EXCEPT !.connect_port = <<8883>>,
                             !.connect_args = <<host, timeout>>,
                             !.calls = Bump(@, "connect")]
    IN  IF out.raised
          THEN [called EXCEPT !.last = "connect",
                              !.raised_from = "connect",
                              !.pc = "raised"]
        ELSE IF out.rc # 0
          THEN [called EXCEPT !.client_result = <<out.rc>>,
                              !.logs = Bump(@, "error_connect"),
                              !.last = "error_connect",
                              !.exit_status = <<(-1) % 256>>,
                              !.pc = "exited"]
        ELSE [called EXCEPT !.client_result = <<out.rc>>,
                            !.connected = TRUE,
                            !.logs = Bump(@, "info_connected"),
                            !.last = "info_connected",
                            !.pc = "publish"]

TlsPublish(tw, out) ==
    LET called == [tw EXCEPT !.stdout = Append(@, PROMPT),
                             !.calls = Bump(@, "publish"),
                             !.sent = @ \cup { <<topic, message, qos>> },
                             !.logs = Bump(@, "debug_running")]
    IN  IF out.raised
          THEN [called EXCEPT !.last = "publish", !.pc = "except"]
          ELSE [called EXCEPT !.logs = Bump(@, "debug_published"),
                              !.last = "debug_published",
                              !.pc = "sleep"]

TlsSleep(tw, out) ==
    IF out.raised THEN [tw EXCEPT !.pc = "except"]
                  ELSE [tw EXCEPT !.pc = "check"]

TlsBudgetCheck(tw, t) ==
    IF TlsBudgetExpired(t, start_time)
      THEN [tw EXCEPT !.logs = Bump(@, "warning_disconnecting"),
                      !.last = "warning_disconnecting",
                      !.pc = "timed_disconnect"]
      ELSE [tw EXCEPT !.pc = "publish"]

TlsTimedDisconnect(tw, out) ==
    LET called == [tw EXCEPT !.calls = Bump(@, "disconnect")]
    IN  IF out.raised
          THEN [called EXCEPT !.last = "disconnect", !.pc = "except"]
          ELSE [called EXCEPT !.connected = FALSE,
                              !.logs = Bump(@, "info_disconnected"),
                              !.last = "info_disconnected",
                              !.pc = "returned"]

TlsExcept(tw) ==
    [tw EXCEPT !.logs = Bump(@, "warning_disconnecting"),
               !.last = "warning_disconnecting",
               !.pc = "except_disconnect"]

TlsExceptDisconnect(tw, out) ==
    LET called == [tw EXCEPT !.calls = Bump(@, "disconnect")]
    IN  IF out.raised
          THEN [called EXCEPT !.last = "disconnect",
                              !.raised_from = "run",
                              !.pc = "raised"]
          ELSE [called EXCEPT !.connected = FALSE,
                              !.logs = Bump(@, "info_disconnected"),
                              !.last = "info_disconnected",
                              !.pc = "publish"]

TwinStep(tw, out, t) ==
    CASE tw.pc = "connect" -> TlsConnect(tw, out)
      [] tw.pc = "publish" -> TlsPublish(tw, out)
      [] tw.pc = "sleep" -> TlsSleep(tw, out)
      [] tw.pc = "check" -> TlsBudgetCheck(tw, t)
      [] tw.pc = "timed_disconnect" -> TlsTimedDisconnect(tw, out)
      [] tw.pc = "except" -> TlsExcept(tw)
      [] tw.pc = "except_disconnect" -> TlsExceptDisconnect(tw, out)
      [] OTHER -> tw

\* The outcome the environment gave the publisher in this step.
Outcome ==
    [ raised |-> faults' > faults,
      rc |-> IF client_result' = <<>> THEN 0 ELSE client_result'[1] ]

TwinMoves == twin' = TwinStep(twin, Outcome, now')

PairInit == Init /\ role = "PUB"

PairNext ==
    \/ Connect /\ TwinMoves
    \/ Publish /\ TwinMoves
    \/ Sleep /\ TwinMoves
    \/ BudgetCheck /\ TwinMoves
    \/ TimedDisconnect /\ TwinMoves
    \/ Except /\ TwinMoves
    \/ ExceptDisconnect /\ TwinMoves

PairSpec == PairInit /\ [][PairNext]_vars

\* C16: given the same configuration, clock readings and Transport
\* outcomes, MQTTPublish_TLS from connect() onward makes the same Transport
\* calls, logs the same events, prints the same lines and ends the same way
\* as MQTTPublish, step for step; only the port passed to connect differs
\* (8883 instead of the configured port).
C16_TlsPublisherMatchesPublisher ==
    /\ twin.pc = pc
    /\ twin.calls = calls
    /\ twin.logs = logs
    /\ twin.last = last
    /\ twin.sent = sent
    /\ twin.stdout = stdout
    /\ twin.client_result = client_result
    /\ twin.connect_args = connect_args
    /\ twin.connected = connected
    /\ twin.raised_from = raised_from
    /\ twin.exit_status = exit_status
    /\ (calls["connect"] = 0 => connect_port = <<>> /\ twin.connect_port = <<>>)
    /\ (calls["connect"] >= 1 =>
          connect_port = <<port>> /\ twin.connect_port = <<8883>>)

C16_Witness ==
    /\ port = 1883
    /\ twin.connect_port = <<8883>>
    /\ delay = 0
    /\ faults = 1
    /\ loop_faults = 1
    /\ pc = "returned"
    /\ twin.pc = "returned"
    /\ twin.calls["publish"] = 41
    /\ twin.calls["disconnect"] = 2
    /\ twin.logs["warning_disconnecting"] = 2

====
